---- MODULE Spec2Model ----
(***************************************************************************)
(* Model of the Molarity simulation: the Solution model (three input       *)
(* properties, two derived properties), the a11y describers that classify  *)
(* concentration, solids and volume into regions, and the alerts that      *)
(* MolarityScreenView adds to the utterance queue.                         *)
(*                                                                         *)
(* Numbers are exact fixed-point integers:                                 *)
(*   soluteAmount      in 10^-3 mol                                        *)
(*   volume            in 10^-4 L   (finer than the decimal places the     *)
(*                                   volume slider keeps, so that the gaps *)
(*                                   between bucket boundaries such as     *)
(*                                   .499 and .500 can be expressed)       *)
(*   concentration     in 10^-3 mol/L (CONCENTRATION_DECIMAL_PLACES = 3)   *)
(*   precipitateAmount in 10^-7 mol (= soluteAmount unit * volume unit)    *)
(* A nullable boolean of the code is one of "null", "true", "false".       *)
(***************************************************************************)
EXTENDS Integers, Sequences, FiniteSets, TLC

VARIABLES
  solute,                     \* Solution.soluteProperty (index into the catalog)
  soluteAmount,               \* Solution.soluteAmountProperty
  volume,                     \* Solution.volumeProperty
  concentration,              \* Solution.concentrationProperty (DerivedProperty value)
  precipitateAmount,          \* Solution.precipitateAmountProperty (DerivedProperty value)
  concentrationRegion,        \* ConcentrationDescriber fields
  concentrationRegionChanged,
  concentrationIncreased,
  solidsRegion,
  solidsRegionChanged,
  solidsIncreased,
  saturationStateChanged,
  currentRegion,              \* VolumeDescriber fields
  volumeRegionChanged,
  isInitialVolumeAlert,
  volumeIncreased,
  valuesVisible,              \* MolarityScreenView valuesVisibleProperty
  saturatedIndicatorVisible,  \* SaturatedIndicator.visible
  resetInProgress,            \* MolarityModel.resetInProgressProperty
  utteranceQueue,             \* utterances added by the last handler, in order
  sounds,                     \* calls of the sound generators in the last handler
  notifications,              \* recomputations and listener calls of the last handler
  lastAction,                 \* the handler that ran last
  probe                       \* a function or query, its argument and, once evaluated, its result

vars == << solute, soluteAmount, volume, concentration, precipitateAmount,
           concentrationRegion, concentrationRegionChanged, concentrationIncreased,
           solidsRegion, solidsRegionChanged, solidsIncreased, saturationStateChanged,
           currentRegion, volumeRegionChanged, isInitialVolumeAlert, volumeIncreased,
           valuesVisible, saturatedIndicatorVisible, resetInProgress, utteranceQueue,
           sounds, notifications, lastAction, probe >>

-----------------------------------------------------------------------------
(* Configuration: MConstants and the solute catalog of MolarityModel.      *)

\* fixed-point scales
AMOUNT_UNITS_PER_MOL == 1000
VOLUME_UNITS_PER_LITER == 10000
CONCENTRATION_DECIMAL_PLACES == 3

ConcentrationUnitsPerMolar == 10 ^ CONCENTRATION_DECIMAL_PLACES

\* concentration units per (amount unit / volume unit)
RatioScale == (ConcentrationUnitsPerMolar * VOLUME_UNITS_PER_LITER) \div AMOUNT_UNITS_PER_MOL

\* precipitate units per amount unit
PrecipitateScale == RatioScale

SOLUTE_AMOUNT_RANGE == [min |-> 0, max |-> 7330]

SOLUTION_VOLUME_RANGE == [min |-> 2000, max |-> 10000]

\* saturated concentrations of the catalog, in concentration units
SoluteCatalog == << 5000, 500, 3350, 5950 >>

Solutes == 1 .. Len(SoluteCatalog)

saturatedConcentration(s) == SoluteCatalog[s]

\* construction-time arguments of Solution
DefaultSolute == 1

DefaultSoluteAmount == 500

DefaultVolume == 5000

\* the values the sliders write: a grid of half-mol steps from SOLUTE_AMOUNT_RANGE.min
\* and of 0.2 L steps from SOLUTION_VOLUME_RANGE.min, inside the ranges
MaxAmountSteps == 2

MaxVolumeSteps == 4

AmountStep == AMOUNT_UNITS_PER_MOL \div 2

VolumeStep == VOLUME_UNITS_PER_LITER \div 5

AmountValues ==
  { a \in { SOLUTE_AMOUNT_RANGE.min + k * AmountStep : k \in 0 .. MaxAmountSteps } :
      a <= SOLUTE_AMOUNT_RANGE.max }

VolumeValues ==
  { v \in { SOLUTION_VOLUME_RANGE.min + k * VolumeStep : k \in 0 .. MaxVolumeSteps } :
      v <= SOLUTION_VOLUME_RANGE.max }

\* decimalPlaces arguments of the two sliders
SOLUTE_AMOUNT_DECIMAL_PLACES == 2

VOLUME_DECIMAL_PLACES == 2

\* one unit of the last decimal place a slider keeps, in fixed-point units
AmountQuantum == AMOUNT_UNITS_PER_MOL \div (10 ^ SOLUTE_AMOUNT_DECIMAL_PLACES)

VolumeQuantum == VOLUME_UNITS_PER_LITER \div (10 ^ VOLUME_DECIMAL_PLACES)

\* the values Util.linear derives from the pointer position: the pointer is on a
\* grid position, one step below the track, one step above it, or a third of a
\* quantum above the second grid position
PointerAmountValues ==
  AmountValues \cup { SOLUTE_AMOUNT_RANGE.min - AmountStep,
                      SOLUTE_AMOUNT_RANGE.min + AmountStep + (AmountQuantum \div 3),
                      SOLUTE_AMOUNT_RANGE.max + AmountStep }

PointerVolumeValues ==
  VolumeValues \cup { SOLUTION_VOLUME_RANGE.min - VolumeStep,
                      SOLUTION_VOLUME_RANGE.min + VolumeStep + (VolumeQuantum \div 3),
                      SOLUTION_VOLUME_RANGE.max + VolumeStep }

-----------------------------------------------------------------------------
(* Pure functions.                                                         *)

Max(a, b) == IF a >= b THEN a ELSE b

\* Util.toFixedNumber of the non-negative rational num/den, in units of the last place
toFixedNumber(num, den) == (2 * num + den) \div (2 * den)

\* the derivation function of concentrationProperty, without the min: a mutant
computeConcentration_noMin(s, amount, vol) ==
  IF vol > 0 THEN toFixedNumber(RatioScale * amount, vol) ELSE 0

\* the derivation function of concentrationProperty
computeConcentration(s, amount, vol) ==
  IF vol > 0
    THEN IF RatioScale * amount >= saturatedConcentration(s) * vol
           THEN saturatedConcentration(s)
           ELSE toFixedNumber(RatioScale * amount, vol)
    ELSE 0

\* computePrecipitateAmount taking the dissolved part from the rounded
\* concentration: a mutant
computePrecipitateAmount_rounded(vol, amount, satConc) ==
  IF vol > 0
    THEN Max(0, PrecipitateScale * amount
                  - vol * (IF RatioScale * amount >= satConc * vol
                             THEN satConc
                             ELSE toFixedNumber(RatioScale * amount, vol)))
    ELSE PrecipitateScale * amount

\* Solution.computePrecipitateAmount without Math.max: a mutant
computePrecipitateAmount_noMax(vol, amount, satConc) ==
  IF vol > 0 THEN PrecipitateScale * amount - vol * satConc ELSE PrecipitateScale * amount

\* Solution.computePrecipitateAmount
computePrecipitateAmount(vol, amount, satConc) ==
  IF vol > 0 THEN Max(0, PrecipitateScale * amount - vol * satConc)
             ELSE PrecipitateScale * amount

\* number of entries of SOLIDS_STRINGS and CONCENTRATION_STRINGS
SOLIDS_STRINGS_length == 5

CONCENTRATION_STRINGS_length == 7

\* solidsToIndex: precipitateAmount <= k * fraction / 5 with
\* fraction = (5 - saturatedConcentration) / SOLIDS_STRINGS.length
solidsAtMost(precipitate, satConc, k) ==
  precipitate * 5 * SOLIDS_STRINGS_length
     <= k * (5 * ConcentrationUnitsPerMolar - satConc) * PrecipitateScale

solidsToIndex(precipitate, satConc) ==
  IF solidsAtMost(precipitate, satConc, 1) THEN 0
  ELSE IF solidsAtMost(precipitate, satConc, 2) THEN 1
  ELSE IF solidsAtMost(precipitate, satConc, 3) THEN 2
  ELSE IF solidsAtMost(precipitate, satConc, 4) THEN 3
  ELSE 4

\* concentrationToIndex with > in place of >= in the test of the top region: a mutant
concentrationToIndex_strictTop(maxConcentration, conc) ==
  LET n == CONCENTRATION_STRINGS_length - 2 IN
  IF conc * 1000 <= ConcentrationUnitsPerMolar THEN 0
  ELSE IF conc * n <= maxConcentration THEN 1
  ELSE IF conc * n <= 2 * maxConcentration THEN 2
  ELSE IF conc * n <= 3 * maxConcentration THEN 3
  ELSE IF conc * n <= 4 * maxConcentration THEN 4
  ELSE IF conc * n > 5 * maxConcentration THEN 6
  ELSE 5

\* concentrationToIndex: scaleIncrement = maxConcentration / (CONCENTRATION_STRINGS.length - 2)
concentrationToIndex(maxConcentration, conc) ==
  LET n == CONCENTRATION_STRINGS_length - 2 IN
  IF conc * 1000 <= ConcentrationUnitsPerMolar THEN 0
  ELSE IF conc * n <= maxConcentration THEN 1
  ELSE IF conc * n <= 2 * maxConcentration THEN 2
  ELSE IF conc * n <= 3 * maxConcentration THEN 3
  ELSE IF conc * n <= 4 * maxConcentration THEN 4
  ELSE IF conc * n >= 5 * maxConcentration THEN 6
  ELSE 5

\* volumeToIndex without the branch for exactly .500: a mutant
volumeToIndex_noHalf(v) ==
  IF v <= 2000 THEN 0
  ELSE IF v <= 3500 THEN 1
  ELSE IF v <= 4990 THEN 2
  ELSE IF v <= 7500 THEN 4
  ELSE IF v <= 9990 THEN 5
  ELSE 6

\* volumeToIndex of view/describers/VolumeDescriber.js
volumeToIndex(v) ==
  IF v <= 2000 THEN 0
  ELSE IF v <= 3500 THEN 1
  ELSE IF v <= 4990 THEN 2
  ELSE IF v = 5000 THEN 3
  ELSE IF v <= 7500 THEN 4
  ELSE IF v <= 9990 THEN 5
  ELSE 6

\* volumeToIndex of the other VolumeDescriber (src/unnamed/part_001)
volumeToIndex_part_001(v) ==
  IF v <= 2200 THEN 0
  ELSE IF v <= 3300 THEN 1
  ELSE IF v <= 4100 THEN 2
  ELSE IF v <= 5300 THEN 3
  ELSE IF v <= 7800 THEN 4
  ELSE IF v <= 9600 THEN 5
  ELSE 6

\* newValue > oldValue, as stored in a {boolean|null} field
Increased(newValue, oldValue) == IF newValue > oldValue THEN "true" ELSE "false"

\* Util.clamp
clamp(value, min, max) == IF value < min THEN min ELSE IF value > max THEN max ELSE value

\* toFixed( value, decimalPlaces ): the nearest multiple of one unit of the last
\* place (quantum), a half rounding up
toFixed(value, quantum) == ((2 * value + quantum) \div (2 * quantum)) * quantum

\* the value a slider writes, without Util.clamp: a mutant
sliderValue_noClamp(value, range, quantum) == toFixed(value, quantum)

\* the value handleEvent of the Track and drag of the ThumbDragHandler write to
\* the slider's property, for the value derived from the pointer position
sliderValue(value, range, quantum) == toFixed(clamp(value, range.min, range.max), quantum)

\* Solution.getColor testing concentration >= 0: a mutant
getColor_fromZero(conc, satConc) ==
  IF conc >= 0
    THEN [ color |-> "interpolated", colorScale |-> [ num |-> conc, den |-> satConc ] ]
    ELSE [ color |-> "solvent", colorScale |-> [ num |-> 0, den |-> 1 ] ]

\* Solution.getColor: the solvent color, or the interpolation between
\* solute.minColor and solute.maxColor at colorScale = Util.linear( 0,
\* saturatedConcentration, 0, 1, concentration ), kept as a fraction
getColor(conc, satConc) ==
  IF conc > 0
    THEN [ color |-> "interpolated", colorScale |-> [ num |-> conc, den |-> satConc ] ]
    ELSE [ color |-> "solvent", colorScale |-> [ num |-> 0, den |-> 1 ] ]

-----------------------------------------------------------------------------
(* The state as one record, so that a handler is the composition of the    *)
(* property sets, derivations and listener calls it performs, in order.    *)

Cur ==
  [ solute |-> solute, soluteAmount |-> soluteAmount, volume |-> volume,
    concentration |-> concentration, precipitateAmount |-> precipitateAmount,
    concentrationRegion |-> concentrationRegion,
    concentrationRegionChanged |-> concentrationRegionChanged,
    concentrationIncreased |-> concentrationIncreased,
    solidsRegion |-> solidsRegion, solidsRegionChanged |-> solidsRegionChanged,
    solidsIncreased |-> solidsIncreased,
    saturationStateChanged |-> saturationStateChanged,
    currentRegion |-> currentRegion, volumeRegionChanged |-> volumeRegionChanged,
    isInitialVolumeAlert |-> isInitialVolumeAlert, volumeIncreased |-> volumeIncreased,
    valuesVisible |-> valuesVisible,
    saturatedIndicatorVisible |-> saturatedIndicatorVisible,
    resetInProgress |-> resetInProgress,
    utteranceQueue |-> << >>, sounds |-> << >>, notifications |-> << >> ]

\* no query result is held
NoProbe == [ fn |-> "none", arg |-> 0, result |-> 0, done |-> FALSE ]

\* the state a handler leaves, and the value a query returned to its caller
CommitWithResult(w, action, returned) ==
  /\ solute' = w.solute
  /\ soluteAmount' = w.soluteAmount
  /\ volume' = w.volume
  /\ concentration' = w.concentration
  /\ precipitateAmount' = w.precipitateAmount
  /\ concentrationRegion' = w.concentrationRegion
  /\ concentrationRegionChanged' = w.concentrationRegionChanged
  /\ concentrationIncreased' = w.concentrationIncreased
  /\ solidsRegion' = w.solidsRegion
  /\ solidsRegionChanged' = w.solidsRegionChanged
  /\ solidsIncreased' = w.solidsIncreased
  /\ saturationStateChanged' = w.saturationStateChanged
  /\ currentRegion' = w.currentRegion
  /\ volumeRegionChanged' = w.volumeRegionChanged
  /\ isInitialVolumeAlert' = w.isInitialVolumeAlert
  /\ volumeIncreased' = w.volumeIncreased
  /\ valuesVisible' = w.valuesVisible
  /\ saturatedIndicatorVisible' = w.saturatedIndicatorVisible
  /\ resetInProgress' = w.resetInProgress
  /\ utteranceQueue' = w.utteranceQueue
  /\ sounds' = w.sounds
  /\ notifications' = w.notifications
  /\ lastAction' = action
  /\ probe' = returned

Commit(w, action) == CommitWithResult(w, action, NoProbe)

\* what a listener can read of the Solution when it is called
Snapshot(w) ==
  [ solute |-> w.solute, soluteAmount |-> w.soluteAmount, volume |-> w.volume,
    concentration |-> w.concentration, precipitateAmount |-> w.precipitateAmount ]

\* a recomputation ("derive") or a notification of listeners ("notify") of a property
Record(w, kind, property) ==
  [ w EXCEPT !.notifications =
      Append(@, [ kind |-> kind, property |-> property, seen |-> Snapshot(w) ]) ]

\* the fields of the describers a listener can read when it is called
DescriberSnapshot(w) ==
  [ concentrationRegion |-> w.concentrationRegion, solidsRegion |-> w.solidsRegion,
    saturationStateChanged |-> w.saturationStateChanged,
    currentRegion |-> w.currentRegion ]

\* a call of a listener with ( newValue, oldValue )
RecordCall(w, listener, newValue, oldValue) ==
  [ w EXCEPT !.notifications =
      Append(@, [ kind |-> "call", property |-> listener, seen |-> Snapshot(w),
                  flags |-> DescriberSnapshot(w),
                  newValue |-> newValue, oldValue |-> oldValue ]) ]

\* utteranceQueue.addToBack( utterance ) with utterance.alert = alert
addToBack(w, utterance, alert) ==
  [ w EXCEPT !.utteranceQueue = Append(@, [ utterance |-> utterance, alert |-> alert ]) ]

\* a call of a sound generator: the clip, the value it was called for, the value
\* of resetInProgressProperty at the call, and whether the clip was played
LogSound(w, clip, value, played) ==
  [ w EXCEPT !.sounds =
      Append(@, [ clip |-> clip, value |-> value,
                  resetInProgress |-> w.resetInProgress, played |-> played ]) ]

\* Solution.isSaturated
isSaturated(w) == w.precipitateAmount # 0

-----------------------------------------------------------------------------
(* Listeners.                                                              *)

\* ConcentrationDescriber: concentrationProperty.lazyLink
ConcentrationListener(w, newValue, oldValue) ==
  LET satConc == saturatedConcentration(w.solute)
      newConcentrationRegion == concentrationToIndex(satConc, w.concentration)
      previousSaturationState == oldValue >= satConc
      newSaturationState == newValue >= satConc
  IN [ RecordCall(w, "concentrationListener", newValue, oldValue)
         EXCEPT !.concentrationIncreased = Increased(newValue, oldValue),
                !.concentrationRegionChanged = (newConcentrationRegion # w.concentrationRegion),
                !.concentrationRegion = newConcentrationRegion,
                !.saturationStateChanged = (newSaturationState # previousSaturationState) ]

\* ConcentrationDescriber: precipitateAmountProperty.lazyLink
PrecipitateListener(w, newValue, oldValue) ==
  LET newSolidsRegion == solidsToIndex(w.precipitateAmount, saturatedConcentration(w.solute))
      previousSaturationState == oldValue # 0
      newSaturationState == newValue # 0
  IN [ RecordCall(w, "precipitateAmountListener", newValue, oldValue)
         EXCEPT !.saturationStateChanged = (newSaturationState # previousSaturationState),
                !.solidsIncreased = Increased(newValue, oldValue),
                !.solidsRegionChanged = (newSolidsRegion # w.solidsRegion),
                !.solidsRegion = newSolidsRegion ]

\* a SaturatedIndicator that uses the saturation test of the concentration
\* listener: a mutant
SaturatedIndicatorListener_fromConcentration(w) ==
  [ w EXCEPT !.saturatedIndicatorVisible =
      (w.concentration >= saturatedConcentration(w.solute)) ]

\* SaturatedIndicator: precipitateAmountProperty.link
SaturatedIndicatorListener(w) ==
  [ w EXCEPT !.saturatedIndicatorVisible = isSaturated(w) ]

\* a volume listener that classifies oldValue in place of newValue: a mutant
VolumeListener_oldValue(w, newValue, oldValue) ==
  LET oldRegion == w.currentRegion
      newRegion == volumeToIndex(oldValue)
  IN [ RecordCall(w, "volumeListener", newValue, oldValue)
         EXCEPT !.currentRegion = newRegion,
                !.volumeRegionChanged = (newRegion # oldRegion),
                !.volumeIncreased = Increased(newValue, oldValue) ]

\* VolumeDescriber: volumeProperty.link
VolumeListener(w, newValue, oldValue) ==
  LET oldRegion == w.currentRegion
      newRegion == volumeToIndex(newValue)
  IN [ RecordCall(w, "volumeListener", newValue, oldValue)
         EXCEPT !.currentRegion = newRegion,
                !.volumeRegionChanged = (newRegion # oldRegion),
                !.volumeIncreased = Increased(newValue, oldValue) ]

\* a SoluteSelectionSoundGenerator that plays whether or not a reset is in
\* progress: a mutant
SoluteSelectionSoundListener_ungated(w, newValue) ==
  LogSound(w, "soluteSelection", newValue, TRUE)

\* SoluteSelectionSoundGenerator: soluteProperty.lazyLink
SoluteSelectionSoundListener(w, newValue) ==
  LogSound(w, "soluteSelection", newValue, ~w.resetInProgress)

\* MolarityScreenView: the valuesVisibleProperty.lazyLink of the checkbox sounds;
\* uncheckedClip is enabled by the inverse of resetInProgressProperty
CheckboxSoundListener(w, newValue) ==
  IF newValue THEN LogSound(w, "checkboxChecked", newValue, TRUE)
              ELSE LogSound(w, "checkboxUnchecked", newValue, ~w.resetInProgress)

\* MolarityScreenView: model.solution.soluteProperty.lazyLink
SoluteChangedListener(w, newValue, oldValue) ==
  LET w0 == RecordCall(w, "soluteListener", newValue, oldValue)
      w1 == addToBack(w0, "simStateUtterance", "soluteChanged")
  IN IF w1.saturationStateChanged
       THEN addToBack(w1, "saturationStateChangeUtterance", "saturationChanged")
       ELSE w1

\* MolarityScreenView: valuesVisibleProperty.lazyLink
ValuesVisibleListener(w, newValue) ==
  addToBack(w, "simStateUtterance",
            IF newValue THEN "showValuesChecked" ELSE "showValuesUnchecked")

-----------------------------------------------------------------------------
(* Derived properties: each is a listener of the three inputs, registered  *)
(* in the Solution constructor before any listener of the view; it         *)
(* recomputes, and notifies its own listeners if the value changed.        *)

\* a concentrationProperty that notifies whether or not its value changed: a mutant
DeriveConcentration_alwaysNotify(w) ==
  LET oldValue == w.concentration
      newValue == computeConcentration(w.solute, w.soluteAmount, w.volume)
      w1 == Record(w, "derive", "concentration")
      w2 == Record([ w1 EXCEPT !.concentration = newValue ], "notify", "concentration")
  IN ConcentrationListener(w2, newValue, oldValue)

DeriveConcentration(w) ==
  LET oldValue == w.concentration
      newValue == computeConcentration(w.solute, w.soluteAmount, w.volume)
      w1 == Record(w, "derive", "concentration")
  IN IF newValue = oldValue THEN w1
     ELSE LET w2 == Record([ w1 EXCEPT !.concentration = newValue ], "notify", "concentration")
          IN ConcentrationListener(w2, newValue, oldValue)

DerivePrecipitateAmount(w) ==
  LET oldValue == w.precipitateAmount
      newValue == computePrecipitateAmount(w.volume, w.soluteAmount,
                                           saturatedConcentration(w.solute))
      w1 == Record(w, "derive", "precipitateAmount")
  IN IF newValue = oldValue THEN w1
     ELSE LET w2 == Record([ w1 EXCEPT !.precipitateAmount = newValue ], "notify", "precipitateAmount")
          IN SaturatedIndicatorListener(PrecipitateListener(w2, newValue, oldValue))

-----------------------------------------------------------------------------
(* Property sets: nothing happens when the value is unchanged.             *)

\* a soluteProperty that notifies whether or not its value changed: a mutant
SetSolute_alwaysNotify(w, s) ==
  LET oldValue == w.solute
      w1 == Record([ w EXCEPT !.solute = s ], "notify", "solute")
  IN SoluteChangedListener(
         SoluteSelectionSoundListener(DerivePrecipitateAmount(DeriveConcentration(w1)), s),
         s, oldValue)

SetSolute(w, s) ==
  IF s = w.solute THEN w
  ELSE LET oldValue == w.solute
           w1 == Record([ w EXCEPT !.solute = s ], "notify", "solute")
       IN SoluteChangedListener(
         SoluteSelectionSoundListener(DerivePrecipitateAmount(DeriveConcentration(w1)), s),
         s, oldValue)

SetSoluteAmount(w, a) ==
  IF a = w.soluteAmount THEN w
  ELSE LET w1 == Record([ w EXCEPT !.soluteAmount = a ], "notify", "soluteAmount")
       IN DerivePrecipitateAmount(DeriveConcentration(w1))

SetVolume(w, v) ==
  IF v = w.volume THEN w
  ELSE LET oldValue == w.volume
           w1 == Record([ w EXCEPT !.volume = v ], "notify", "volume")
       IN VolumeListener(DerivePrecipitateAmount(DeriveConcentration(w1)), v, oldValue)

SetValuesVisible(w, b) ==
  IF b = w.valuesVisible THEN w
  ELSE CheckboxSoundListener(ValuesVisibleListener([ w EXCEPT !.valuesVisible = b ], b), b)

\* Solution.reset without volumeProperty.reset(): a mutant
reset_withoutVolume(w) ==
  SetSoluteAmount(SetSolute(w, DefaultSolute), DefaultSoluteAmount)

\* Solution.reset restoring the inputs in the opposite order: a mutant
reset_volumeFirst(w) ==
  SetSolute(SetSoluteAmount(SetVolume(w, DefaultVolume), DefaultSoluteAmount), DefaultSolute)

\* Solution.reset
reset(w) ==
  SetVolume(SetSoluteAmount(SetSolute(w, DefaultSolute), DefaultSoluteAmount), DefaultVolume)

\* MolarityModel.reset: resetInProgressProperty is true while the solution is reset
modelReset(w) ==
  [ reset([ w EXCEPT !.resetInProgress = TRUE ]) EXCEPT !.resetInProgress = FALSE ]

\* the listener of the Reset All button
resetAllListener(w) == modelReset(SetValuesVisible(w, FALSE))

-----------------------------------------------------------------------------
(* The state after the construction of the model and of MolarityScreenView *)

InitProgram ==
  /\ solute = DefaultSolute
  /\ soluteAmount = DefaultSoluteAmount
  /\ volume = DefaultVolume
  /\ concentration = computeConcentration(DefaultSolute, DefaultSoluteAmount, DefaultVolume)
  /\ precipitateAmount = computePrecipitateAmount(DefaultVolume, DefaultSoluteAmount,
                                                    saturatedConcentration(DefaultSolute))
  /\ concentrationRegion =
       concentrationToIndex(saturatedConcentration(DefaultSolute),
                            computeConcentration(DefaultSolute, DefaultSoluteAmount, DefaultVolume))
  /\ concentrationRegionChanged = FALSE
  /\ concentrationIncreased = "null"
  /\ solidsRegion =
       solidsToIndex(computePrecipitateAmount(DefaultVolume, DefaultSoluteAmount,
                                              saturatedConcentration(DefaultSolute)),
                     saturatedConcentration(DefaultSolute))
  /\ solidsRegionChanged = FALSE
  /\ solidsIncreased = "null"
  /\ saturationStateChanged = FALSE
  \* volumeProperty.link calls the listener at once, with oldValue null:
  \* volumeIncreased = ( volume > null )
  /\ currentRegion = volumeToIndex(DefaultVolume)
  /\ volumeRegionChanged = FALSE
  /\ isInitialVolumeAlert = TRUE
  /\ volumeIncreased = Increased(DefaultVolume, 0)
  /\ valuesVisible = FALSE
  /\ saturatedIndicatorVisible =
       (computePrecipitateAmount(DefaultVolume, DefaultSoluteAmount,
                                 saturatedConcentration(DefaultSolute)) # 0)
  /\ resetInProgress = FALSE
  /\ utteranceQueue = << >>
  /\ sounds = << >>
  /\ notifications = << >>
  /\ lastAction = "init"

Init ==
  /\ InitProgram
  /\ probe = NoProbe

-----------------------------------------------------------------------------
(* User actions.                                                           *)

\* the combo box sets soluteProperty
SelectSolute(s) == Commit(SetSolute(Cur, s), "selectSolute")

\* a click in the track or a drag of the thumb of the solute amount slider, value
\* being the value derived from the pointer position
ChangeSoluteAmount(value) ==
  Commit(SetSoluteAmount(Cur, sliderValue(value, SOLUTE_AMOUNT_RANGE, AmountQuantum)),
         "changeSoluteAmount")

\* the same for the volume slider
ChangeVolume(value) ==
  Commit(SetVolume(Cur, sliderValue(value, SOLUTION_VOLUME_RANGE, VolumeQuantum)),
         "changeVolume")

\* VolumeDescriber.setInitialVolumeAlert
setInitialVolumeAlert(w) == [ w EXCEPT !.isInitialVolumeAlert = TRUE ]

\* the volume slider receives the focus
FocusVolumeSlider == Commit(setInitialVolumeAlert(Cur), "focusVolumeSlider")

\* a caller asks the solution for its color
GetColor ==
  CommitWithResult(Cur, "getColor",
                   [ fn |-> "getColor", arg |-> concentration,
                     result |-> getColor(concentration, saturatedConcentration(solute)),
                     done |-> TRUE ])

\* a caller asks the solution whether it is saturated
IsSaturated ==
  CommitWithResult(Cur, "isSaturated",
                   [ fn |-> "isSaturated", arg |-> precipitateAmount,
                     result |-> isSaturated(Cur), done |-> TRUE ])

\* the Show Values checkbox toggles valuesVisibleProperty
ToggleValuesVisible == Commit(SetValuesVisible(Cur, ~valuesVisible), "toggleValuesVisible")

\* the Reset All button
ResetAll == Commit(resetAllListener(Cur), "resetAll")

Next ==
  \/ \E s \in Solutes : SelectSolute(s)
  \/ \E value \in PointerAmountValues : ChangeSoluteAmount(value)
  \/ \E value \in PointerVolumeValues : ChangeVolume(value)
  \/ ToggleValuesVisible
  \/ ResetAll
  \/ FocusVolumeSlider
  \/ GetColor
  \/ IsSaturated

Spec == Init /\ [][Next]_vars

-----------------------------------------------------------------------------
(* Evaluation of the classifiers over their whole domain.                  *)

VolumeDomain == SOLUTION_VOLUME_RANGE.min .. SOLUTION_VOLUME_RANGE.max

\* inputs of the Solution: every solute, amounts in steps of 0.1 mol and the
\* largest amount, volumes in steps of the last place of the volume slider
SolutionDomain ==
  [ solute : Solutes,
    soluteAmount : { a \in SOLUTE_AMOUNT_RANGE.min .. SOLUTE_AMOUNT_RANGE.max :
                       a % (AMOUNT_UNITS_PER_MOL \div 10) = 0 }
                   \cup { SOLUTE_AMOUNT_RANGE.max },
    volume : { v \in VolumeDomain : v % VolumeQuantum = 0 } ]

\* the volume after v in the domain, in units of 0.0001 L
NextVolume(v) == IF v < SOLUTION_VOLUME_RANGE.max THEN v + 1 ELSE v

\* a solute and a concentration between 0 and its saturated concentration
ConcentrationDomain ==
  LET largest == CHOOSE m \in { saturatedConcentration(s) : s \in Solutes } :
                   \A s \in Solutes : saturatedConcentration(s) <= m
  IN { x \in [ solute : Solutes, concentration : 0 .. largest ] :
         x.concentration <= saturatedConcentration(x.solute) }

NextConcentration(x) ==
  IF x.concentration < saturatedConcentration(x.solute) THEN x.concentration + 1
                                                        ELSE x.concentration

\* the step of the precipitate amounts evaluated: 0.01 mol
PrecipitateStep == PrecipitateScale * (AMOUNT_UNITS_PER_MOL \div 100)

\* a solute and a precipitate amount between 0 and the largest solute amount
PrecipitateDomain ==
  [ solute : Solutes,
    precipitateAmount : { PrecipitateStep * k : k \in 0 .. (SOLUTE_AMOUNT_RANGE.max * 100)
                                                           \div AMOUNT_UNITS_PER_MOL } ]

NextPrecipitate(x) ==
  IF (x.precipitateAmount + PrecipitateStep) \in
       { y.precipitateAmount : y \in PrecipitateDomain }
  THEN x.precipitateAmount + PrecipitateStep ELSE x.precipitateAmount

InitClassify ==
  /\ InitProgram
  /\ \/ \E v \in VolumeDomain :
          probe = [ fn |-> "volumeToIndex", arg |-> v, result |-> 0, done |-> FALSE ]
     \/ \E x \in SolutionDomain :
          probe = [ fn |-> "solution", arg |-> x, result |-> 0, done |-> FALSE ]
     \/ \E v \in VolumeDomain :
          probe = [ fn |-> "volumeTables", arg |-> v, result |-> 0, done |-> FALSE ]
     \/ \E x \in ConcentrationDomain :
          probe = [ fn |-> "concentrationToIndex", arg |-> x, result |-> 0, done |-> FALSE ]
     \/ \E x \in PrecipitateDomain :
          probe = [ fn |-> "solidsToIndex", arg |-> x, result |-> 0, done |-> FALSE ]

ClassifyVolume ==
  /\ probe.fn = "volumeToIndex"
  /\ ~probe.done
  /\ probe' = [ probe EXCEPT !.result = volumeToIndex(probe.arg), !.done = TRUE ]
  /\ UNCHANGED << solute, soluteAmount, volume, concentration, precipitateAmount,
                  concentrationRegion, concentrationRegionChanged, concentrationIncreased,
                  solidsRegion, solidsRegionChanged, solidsIncreased, saturationStateChanged,
                  currentRegion, volumeRegionChanged, isInitialVolumeAlert, volumeIncreased,
                  valuesVisible, saturatedIndicatorVisible, resetInProgress,
                  utteranceQueue, sounds, notifications, lastAction >>

\* the two derivations of a Solution constructed with the given inputs
ComputeSolution ==
  /\ probe.fn = "solution"
  /\ ~probe.done
  /\ probe' =
       [ probe EXCEPT
           !.result =
             [ concentration |->
                 computeConcentration(probe.arg.solute, probe.arg.soluteAmount,
                                      probe.arg.volume),
               precipitateAmount |->
                 computePrecipitateAmount(probe.arg.volume, probe.arg.soluteAmount,
                                          saturatedConcentration(probe.arg.solute)) ],
           !.done = TRUE ]
  /\ UNCHANGED << solute, soluteAmount, volume, concentration, precipitateAmount,
                  concentrationRegion, concentrationRegionChanged, concentrationIncreased,
                  solidsRegion, solidsRegionChanged, solidsIncreased, saturationStateChanged,
                  currentRegion, volumeRegionChanged, isInitialVolumeAlert, volumeIncreased,
                  valuesVisible, saturatedIndicatorVisible, resetInProgress,
                  utteranceQueue, sounds, notifications, lastAction >>

\* the two volumeToIndex functions at a volume, and the first at the next volume
\* and at the middle of the range
CompareVolumeTables ==
  /\ probe.fn = "volumeTables"
  /\ ~probe.done
  /\ probe' =
       [ probe EXCEPT
           !.result = [ describer |-> volumeToIndex(probe.arg),
                        other |-> volumeToIndex_part_001(probe.arg),
                        next |-> volumeToIndex(NextVolume(probe.arg)),
                        half |-> volumeToIndex(VOLUME_UNITS_PER_LITER \div 2) ],
           !.done = TRUE ]
  /\ UNCHANGED << solute, soluteAmount, volume, concentration, precipitateAmount,
                  concentrationRegion, concentrationRegionChanged, concentrationIncreased,
                  solidsRegion, solidsRegionChanged, solidsIncreased, saturationStateChanged,
                  currentRegion, volumeRegionChanged, isInitialVolumeAlert, volumeIncreased,
                  valuesVisible, saturatedIndicatorVisible, resetInProgress,
                  utteranceQueue, sounds, notifications, lastAction >>

\* concentrationToIndex at a concentration and at the next one
ClassifyConcentration ==
  /\ probe.fn = "concentrationToIndex"
  /\ ~probe.done
  /\ probe' =
       [ probe EXCEPT
           !.result =
             [ index |-> concentrationToIndex(saturatedConcentration(probe.arg.solute),
                                              probe.arg.concentration),
               next |-> concentrationToIndex(saturatedConcentration(probe.arg.solute),
                                             NextConcentration(probe.arg)) ],
           !.done = TRUE ]
  /\ UNCHANGED << solute, soluteAmount, volume, concentration, precipitateAmount,
                  concentrationRegion, concentrationRegionChanged, concentrationIncreased,
                  solidsRegion, solidsRegionChanged, solidsIncreased, saturationStateChanged,
                  currentRegion, volumeRegionChanged, isInitialVolumeAlert, volumeIncreased,
                  valuesVisible, saturatedIndicatorVisible, resetInProgress,
                  utteranceQueue, sounds, notifications, lastAction >>

\* solidsToIndex at a precipitate amount and at the next one
ClassifySolids ==
  /\ probe.fn = "solidsToIndex"
  /\ ~probe.done
  /\ probe' =
       [ probe EXCEPT
           !.result =
             [ index |-> solidsToIndex(probe.arg.precipitateAmount,
                                       saturatedConcentration(probe.arg.solute)),
               next |-> solidsToIndex(NextPrecipitate(probe.arg),
                                      saturatedConcentration(probe.arg.solute)) ],
           !.done = TRUE ]
  /\ UNCHANGED << solute, soluteAmount, volume, concentration, precipitateAmount,
                  concentrationRegion, concentrationRegionChanged, concentrationIncreased,
                  solidsRegion, solidsRegionChanged, solidsIncreased, saturationStateChanged,
                  currentRegion, volumeRegionChanged, isInitialVolumeAlert, volumeIncreased,
                  valuesVisible, saturatedIndicatorVisible, resetInProgress,
                  utteranceQueue, sounds, notifications, lastAction >>

NextClassify ==
  \/ ClassifyVolume
  \/ ComputeSolution
  \/ CompareVolumeTables
  \/ ClassifyConcentration
  \/ ClassifySolids

SpecClassify == InitClassify /\ [][NextClassify]_vars

-----------------------------------------------------------------------------
(* Properties.                                                             *)

InputActions == { "selectSolute", "changeSoluteAmount", "changeVolume" }

\* number of records of the given kind and property in a notification log
Count(log, kind, property) ==
  Cardinality({ i \in DOMAIN log : log[i].kind = kind /\ log[i].property = property })

\* the solution holds more solute than dissolves: soluteAmount / volume > saturatedConcentration
OverSaturated(s, amount, vol) == RatioScale * amount > saturatedConcentration(s) * vol

\* C1: in every reachable state the concentration is the rounded
\* min(saturatedConcentration, soluteAmount / volume) of the current inputs and
\* lies between 0 and the saturated concentration of the current solute.
C1_ConcentrationBounded ==
  /\ concentration = computeConcentration(solute, soluteAmount, volume)
  /\ 0 <= concentration
  /\ concentration <= saturatedConcentration(solute)

\* C1 witness: after a user action the amount per volume exceeds the saturated
\* concentration and the concentration is clamped to it.
C1_Witness ==
  /\ lastAction \in InputActions
  /\ OverSaturated(solute, soluteAmount, volume)
  /\ concentration = saturatedConcentration(solute)

\* C2: for the inputs of every reachable state, computePrecipitateAmount is >= 0,
\* and it is > 0 (isSaturated() true) exactly when soluteAmount / volume exceeds
\* the saturated concentration.
C2_PrecipitateIffOverSaturated ==
  LET p == computePrecipitateAmount(volume, soluteAmount, saturatedConcentration(solute))
  IN /\ p >= 0
     /\ (p > 0) <=> OverSaturated(solute, soluteAmount, volume)
     /\ precipitateAmount = p
     /\ isSaturated(Cur) <=> OverSaturated(solute, soluteAmount, volume)

\* C2 witness: a volume change has produced precipitate.
C2_Witness ==
  /\ lastAction = "changeVolume"
  /\ OverSaturated(solute, soluteAmount, volume)
  /\ precipitateAmount > 0

\* C2 witness of the boundary: soluteAmount / volume is exactly the saturated
\* concentration and there is no precipitate.
C2_BoundaryReached ==
  /\ RatioScale * soluteAmount = saturatedConcentration(solute) * volume
  /\ precipitateAmount = 0

C4_NoNarrationDuringReset ==
  lastAction = "resetAll" => utteranceQueue = << >>

\* C5: a solute selection adds at most one utterance to the utterance queue.
C5_OneNarrationPerSoluteChange ==
  lastAction = "selectSolute" => Len(utteranceQueue) <= 1

\* C6: a solute change adds the saturation-changed alert only if isSaturated()
\* differs between just before and just after the change.
C6_SaturationAlertOnlyOnTransition ==
  [][ ( /\ lastAction' = "selectSolute"
        /\ solute' # solute
        /\ \E i \in DOMAIN utteranceQueue' : utteranceQueue'[i].alert = "saturationChanged" )
      => ( (precipitateAmount # 0) # (precipitateAmount' # 0) )
    ]_vars

\* C7: after each change of solute, soluteAmount or volume, each region-changed flag
\* is true exactly when the region index of its quantity after the change differs
\* from the region index before the change.
C7_RegionChangedIffRegionDiffers ==
  [][ ( /\ lastAction' \in InputActions
        /\ << solute', soluteAmount', volume' >> # << solute, soluteAmount, volume >> )
      => /\ concentrationRegionChanged'
              <=> ( concentrationToIndex(saturatedConcentration(solute'), concentration')
                      # concentrationToIndex(saturatedConcentration(solute), concentration) )
         /\ solidsRegionChanged'
              <=> ( solidsToIndex(precipitateAmount', saturatedConcentration(solute'))
                      # solidsToIndex(precipitateAmount, saturatedConcentration(solute)) )
         /\ volumeRegionChanged' <=> ( volumeToIndex(volume') # volumeToIndex(volume) )
    ]_vars

\* C8: after a change of volume or soluteAmount, saturationStateChanged is true
\* exactly when isSaturated() before the change differs from isSaturated() after it.
C8_SaturationStateChangedIffTransition ==
  [][ ( /\ lastAction' \in { "changeSoluteAmount", "changeVolume" }
        /\ << soluteAmount', volume' >> # << soluteAmount, volume >> )
      => ( saturationStateChanged' <=> ( (precipitateAmount # 0) # (precipitateAmount' # 0) ) )
    ]_vars

\* C9: after a solute change, concentrationRegion is the region of the current
\* concentration against the saturated concentration of the new solute.
C9_ConcentrationRegionFollowsSolute ==
  [][ ( lastAction' = "selectSolute" /\ solute' # solute )
      => concentrationRegion'
           = concentrationToIndex(saturatedConcentration(solute'), concentration')
    ]_vars

\* C10: volumeToIndex maps every volume of [0.200, 1.000] to a region index in 0..6,
\* and exactly 0.500 to index 3.
C10_VolumeToIndexTotal ==
  (probe.fn = "volumeToIndex" /\ probe.done) =>
    /\ probe.arg \in VolumeDomain
    /\ probe.result \in 0 .. 6
    /\ (probe.arg = 5000 => probe.result = 3)

\* C10 witness: volumeToIndex has been evaluated at exactly 0.500.
C10_Witness ==
  /\ probe.fn = "volumeToIndex"
  /\ probe.done
  /\ probe.arg = 5000
  /\ probe.result = 3

\* the calls of the given listener in a notification log
Calls(log, listener) ==
  { i \in DOMAIN log : log[i].kind = "call" /\ log[i].property = listener }

\* both derived values of a snapshot are the ones derived from its inputs
ConcentrationDerived(seen) ==
  seen.concentration = computeConcentration(seen.solute, seen.soluteAmount, seen.volume)

PrecipitateDerived(seen) ==
  seen.precipitateAmount
    = computePrecipitateAmount(seen.volume, seen.soluteAmount,
                               saturatedConcentration(seen.solute))

\* C11: a change of solute, soluteAmount or volume recomputes concentration and
\* precipitateAmount once each, and no listener is called at a moment when
\* concentrationProperty holds the value of the new inputs while
\* precipitateAmountProperty does not.
C11_NoPartialStateNotification ==
  (lastAction \in InputActions /\ notifications # << >>) =>
    /\ Count(notifications, "derive", "concentration") = 1
    /\ Count(notifications, "derive", "precipitateAmount") = 1
    /\ \A i \in DOMAIN notifications :
         notifications[i].kind = "call" =>
           ( ConcentrationDerived(notifications[i].seen)
               => PrecipitateDerived(notifications[i].seen) )

\* C12: the direction flags of the describers are null after construction and
\* after a reset; after any other change of the tracked quantity they are true
\* if the new value is greater than the old value and false otherwise.
C12_DirectionFlagsNullAtStartAndReset ==
  /\ [] ( lastAction \in { "init", "resetAll" } =>
            /\ concentrationIncreased = "null"
            /\ solidsIncreased = "null"
            /\ volumeIncreased = "null" )
  /\ [][ lastAction' \in InputActions =>
           /\ concentration' # concentration =>
                concentrationIncreased' = Increased(concentration', concentration)
           /\ precipitateAmount' # precipitateAmount =>
                solidsIncreased' = Increased(precipitateAmount', precipitateAmount)
           /\ volume' # volume => volumeIncreased' = Increased(volume', volume)
       ]_vars

\* C13: in a solute change, both derived values are recomputed before a listener
\* of a describer updates its flags, and the soluteProperty listener of the screen
\* view runs last: when it reads isNewSaturationState(), the derived values are
\* those of the new solute, the regions are the regions of these values for the new
\* solute, and saturationStateChanged tells whether the change of solute changed
\* isSaturated().
C13_SoluteChangeOrder ==
  [][ ( lastAction' = "selectSolute" /\ solute' # solute ) =>
        LET log == notifications' IN
        /\ \A i \in Calls(log, "concentrationListener")
                      \cup Calls(log, "precipitateAmountListener") :
             \A j \in DOMAIN log : log[j].kind = "derive" => j < i
        /\ Calls(log, "soluteListener") = { Len(log) }
        /\ LET n == log[Len(log)]
               satConc == saturatedConcentration(solute')
           IN /\ n.seen.solute = solute'
              /\ ConcentrationDerived(n.seen)
              /\ PrecipitateDerived(n.seen)
              /\ n.flags.concentrationRegion
                   = concentrationToIndex(satConc, n.seen.concentration)
              /\ n.flags.solidsRegion = solidsToIndex(n.seen.precipitateAmount, satConc)
              /\ n.flags.saturationStateChanged
                   <=> ( (precipitateAmount # 0) # (n.seen.precipitateAmount # 0) )
    ]_vars

\* C14: when reset() has returned, solute, soluteAmount and volume are the
\* arguments of the Solution constructor, and concentration and precipitateAmount
\* are the values derived from them.
C14_ResetRestoresDefaults ==
  lastAction = "resetAll" =>
    /\ solute = DefaultSolute
    /\ soluteAmount = DefaultSoluteAmount
    /\ volume = DefaultVolume
    /\ concentration = computeConcentration(DefaultSolute, DefaultSoluteAmount, DefaultVolume)
    /\ precipitateAmount
         = computePrecipitateAmount(DefaultVolume, DefaultSoluteAmount,
                                    saturatedConcentration(DefaultSolute))

\* C14 witness: a reset has restored all three inputs, each of which had been
\* changed before.
C14_Witness ==
  /\ lastAction = "resetAll"
  /\ Count(notifications, "notify", "solute") = 1
  /\ Count(notifications, "notify", "soluteAmount") = 1
  /\ Count(notifications, "notify", "volume") = 1
  /\ solute = DefaultSolute
  /\ soluteAmount = DefaultSoluteAmount
  /\ volume = DefaultVolume

\* C15: a reset that directly follows a reset leaves solute, soluteAmount, volume,
\* concentration and precipitateAmount as the first reset left them, and notifies
\* no listener and recomputes nothing.
C15_ResetIdempotent ==
  [][ ( lastAction = "resetAll" /\ lastAction' = "resetAll" ) =>
        /\ << solute', soluteAmount', volume', concentration', precipitateAmount' >>
             = << solute, soluteAmount, volume, concentration, precipitateAmount >>
        /\ notifications' = << >>
        /\ utteranceQueue' = << >>
    ]_vars

\* C15 witness: the state a reset leaves when it changed nothing, which is the
\* state the second of two resets in a row leaves.
C15_Witness ==
  /\ lastAction = "resetAll"
  /\ notifications = << >>
  /\ utteranceQueue = << >>
  /\ solute = DefaultSolute
  /\ soluteAmount = DefaultSoluteAmount
  /\ volume = DefaultVolume

\* value is within half a unit of the last place (quantum) of some pointer-derived
\* value clamped to the range
ClampedAndRounded(value, pointerValues, range, quantum) ==
  \E p \in pointerValues :
    LET c == clamp(p, range.min, range.max)
    IN /\ 2 * (value - c) <= quantum
       /\ 2 * (c - value) < quantum

\* C16: the value a slider has written is a pointer-derived value clamped to the
\* range of the slider and rounded to its decimal places; soluteAmount is always
\* inside SOLUTE_AMOUNT_RANGE and volume inside SOLUTION_VOLUME_RANGE, both with
\* the decimal places of their slider, and volume is never 0.
C16_SliderValuesClampedAndRounded ==
  /\ soluteAmount >= SOLUTE_AMOUNT_RANGE.min
  /\ soluteAmount <= SOLUTE_AMOUNT_RANGE.max
  /\ soluteAmount % AmountQuantum = 0
  /\ volume >= SOLUTION_VOLUME_RANGE.min
  /\ volume <= SOLUTION_VOLUME_RANGE.max
  /\ volume % VolumeQuantum = 0
  /\ volume # 0
  /\ lastAction = "changeSoluteAmount" =>
       ClampedAndRounded(soluteAmount, PointerAmountValues, SOLUTE_AMOUNT_RANGE, AmountQuantum)
  /\ lastAction = "changeVolume" =>
       ClampedAndRounded(volume, PointerVolumeValues, SOLUTION_VOLUME_RANGE, VolumeQuantum)

\* C16 witness: a pointer above the track of the solute amount slider has written
\* the upper end of the range, and the volume is the lower end of its range.
C16_Witness ==
  /\ lastAction = "changeSoluteAmount"
  /\ soluteAmount = SOLUTE_AMOUNT_RANGE.max
  /\ soluteAmount \notin AmountValues
  /\ volume = SOLUTION_VOLUME_RANGE.min

\* min( saturatedConcentration, soluteAmount / volume ) * volume, in precipitate units
Dissolved(s, amount, vol) ==
  IF RatioScale * amount >= saturatedConcentration(s) * vol
    THEN saturatedConcentration(s) * vol
    ELSE RatioScale * amount

\* C17: for every solute, amount and volume > 0, the dissolved part
\* min(saturatedConcentration, soluteAmount / volume) * volume plus
\* computePrecipitateAmount is the solute amount; with saturated concentration 5.0,
\* amount 6.0 and volume 1.000 the concentration is 5.0 and the precipitate 1.0.
C17_SoluteConserved ==
  (probe.fn = "solution" /\ probe.done) =>
    LET x == probe.arg IN
    /\ x.volume > 0
    /\ Dissolved(x.solute, x.soluteAmount, x.volume) + probe.result.precipitateAmount
         = PrecipitateScale * x.soluteAmount
    /\ ( /\ saturatedConcentration(x.solute) = 5 * ConcentrationUnitsPerMolar
         /\ x.soluteAmount = 6 * AMOUNT_UNITS_PER_MOL
         /\ x.volume = VOLUME_UNITS_PER_LITER )
       => /\ probe.result.concentration = 5 * ConcentrationUnitsPerMolar
          /\ probe.result.precipitateAmount = PrecipitateScale * AMOUNT_UNITS_PER_MOL

\* C17 witness: the derivations have been evaluated for saturated concentration
\* 5.0, amount 6.0 and volume 1.000.
C17_Witness ==
  /\ probe.fn = "solution"
  /\ probe.done
  /\ saturatedConcentration(probe.arg.solute) = 5 * ConcentrationUnitsPerMolar
  /\ probe.arg.soluteAmount = 6 * AMOUNT_UNITS_PER_MOL
  /\ probe.arg.volume = VOLUME_UNITS_PER_LITER
  /\ probe.result.precipitateAmount > 0

\* C17 witness of rounding: an unsaturated solution whose concentration is not a
\* multiple of the last place kept, so that the rounded concentration times the
\* volume differs from the amount.
C17_RoundedReached ==
  /\ probe.fn = "solution"
  /\ probe.done
  /\ probe.result.precipitateAmount = 0
  /\ probe.result.concentration * probe.arg.volume < RatioScale * probe.arg.soluteAmount

\* C18: getColor() returns the solvent color exactly when the concentration is 0;
\* otherwise it interpolates with a scale of concentration / saturatedConcentration,
\* which is greater than 0 and at most 1. isSaturated() returns whether
\* precipitateAmount differs from 0. Neither changes solute, soluteAmount, volume,
\* concentration or precipitateAmount.
C18_GetColorPureAndScaled ==
  [][ /\ lastAction' = "getColor" =>
           LET returned == probe'.result IN
           /\ (returned.color = "solvent") <=> (concentration = 0)
           /\ returned.color \in { "solvent", "interpolated" }
           /\ returned.color = "interpolated" =>
                /\ returned.colorScale.num * saturatedConcentration(solute)
                     = concentration * returned.colorScale.den
                /\ returned.colorScale.den > 0
                /\ returned.colorScale.num > 0
                /\ returned.colorScale.num <= returned.colorScale.den
           /\ << solute', soluteAmount', volume', concentration', precipitateAmount' >>
                = << solute, soluteAmount, volume, concentration, precipitateAmount >>
      /\ lastAction' = "isSaturated" =>
           /\ probe'.result = (precipitateAmount # 0)
           /\ << solute', soluteAmount', volume', concentration', precipitateAmount' >>
                = << solute, soluteAmount, volume, concentration, precipitateAmount >>
    ]_vars

\* C18 witness: getColor() has returned the interpolation at scale 1 for a
\* saturated solution.
C18_Witness ==
  /\ lastAction = "getColor"
  /\ probe.result.color = "interpolated"
  /\ probe.result.colorScale.num = probe.result.colorScale.den
  /\ precipitateAmount > 0

\* C18 witness of the other case: getColor() has returned the solvent color.
C18_SolventReached ==
  /\ lastAction = "getColor"
  /\ probe.result.color = "solvent"
  /\ concentration = 0

\* C19: the listeners of the describers on concentrationProperty and
\* volumeProperty are called only with a newValue that differs from oldValue, and
\* newValue is the value the property holds.
C19_ListenersCalledOnlyOnChange ==
  /\ \A i \in Calls(notifications, "concentrationListener") :
       /\ notifications[i].newValue # notifications[i].oldValue
       /\ notifications[i].newValue = notifications[i].seen.concentration
  /\ \A i \in Calls(notifications, "volumeListener") :
       /\ notifications[i].newValue # notifications[i].oldValue
       /\ notifications[i].newValue = notifications[i].seen.volume

\* C19 witness: solute was added to a saturated solution; precipitateAmount
\* changed and its listener was called, the concentration did not change and its
\* listener was not called.
C19_Witness ==
  /\ lastAction = "changeSoluteAmount"
  /\ Calls(notifications, "precipitateAmountListener") # { }
  /\ Calls(notifications, "concentrationListener") = { }
  /\ Count(notifications, "derive", "concentration") = 1
  /\ concentration = saturatedConcentration(solute)

\* C19 witness of a reset from the default state: nothing is recomputed and no
\* listener is called.
C19_ResetFromDefaultsReached ==
  /\ lastAction = "resetAll"
  /\ notifications = << >>

\* C20: focusing the volume slider sets isInitialVolumeAlert, and the first change
\* of the volume after that clears it.
C20_InitialVolumeAlertOneTime ==
  [][ /\ lastAction' = "focusVolumeSlider" => isInitialVolumeAlert'
      /\ ( lastAction' = "changeVolume" /\ volume' # volume ) => ~isInitialVolumeAlert'
    ]_vars

\* the calls of the given clip in a log of sound generator calls
SoundCalls(log, clip) == { i \in DOMAIN log : log[i].clip = clip }

\* C21: the SoluteSelectionSoundGenerator is called once for every change of
\* soluteProperty, with the new solute; it plays the sound when
\* resetInProgressProperty is false at the call and does not play it when it is
\* true; a solute selected by the user is played, the solute change of a reset is
\* not, and nothing is played at construction.
C21_SoluteSoundGatedByReset ==
  /\ [] ( /\ lastAction = "init" => sounds = << >>
          /\ \A i \in SoundCalls(sounds, "soluteSelection") :
               /\ sounds[i].played = ~sounds[i].resetInProgress
               /\ sounds[i].value = solute
               /\ lastAction = "selectSolute" => sounds[i].played
               /\ lastAction = "resetAll" => ~sounds[i].played
          /\ ~resetInProgress )
  /\ [][ Cardinality(SoundCalls(sounds', "soluteSelection"))
           = IF solute' # solute THEN 1 ELSE 0 ]_vars

\* C21 witness: Reset All has changed the solute back to the default one while
\* resetInProgressProperty was true, and the sound was not played.
C21_Witness ==
  /\ lastAction = "resetAll"
  /\ \E i \in SoundCalls(sounds, "soluteSelection") :
       /\ sounds[i].resetInProgress
       /\ ~sounds[i].played
       /\ sounds[i].value = DefaultSolute

\* C21 witness of the other case: the user has selected another solute and its
\* sound was played.
C21_PlayedReached ==
  /\ lastAction = "selectSolute"
  /\ \E i \in SoundCalls(sounds, "soluteSelection") :
       sounds[i].played /\ sounds[i].value = solute /\ solute # DefaultSolute

\* C22: the volumeToIndex of view/describers/VolumeDescriber.js and the
\* volumeToIndex of the other VolumeDescriber return the same region for every
\* volume of the range.
C22_OneVolumeTable ==
  ( probe.fn = "volumeTables" /\ probe.done ) =>
      probe.result.describer = probe.result.other

\* C23: volumeToIndex does not decrease from a volume to the next one, and no
\* volume at or below the middle of the range is in a higher region than the
\* middle itself.
C23_VolumeToIndexMonotonic ==
  ( probe.fn = "volumeTables" /\ probe.done ) =>
      /\ probe.result.describer <= probe.result.next
      /\ probe.arg <= VOLUME_UNITS_PER_LITER \div 2 =>
           probe.result.describer <= probe.result.half

\* C24: currentRegion is the region of the volume in every reachable state, and
\* at every call of the volume listener currentRegion, before it is updated, is
\* the region of oldValue.
C24_CurrentRegionTracksVolume ==
  /\ currentRegion = volumeToIndex(volume)
  /\ \A i \in Calls(notifications, "volumeListener") :
       notifications[i].flags.currentRegion = volumeToIndex(notifications[i].oldValue)

\* C24 witness: a reset has changed the volume to one of another region; the
\* listener found the region of the old volume and left the region of the new one.
C24_Witness ==
  /\ lastAction = "resetAll"
  /\ \E i \in Calls(notifications, "volumeListener") :
       /\ notifications[i].flags.currentRegion = volumeToIndex(notifications[i].oldValue)
       /\ notifications[i].flags.currentRegion # currentRegion
       /\ notifications[i].newValue = DefaultVolume

\* C24 witness of a volume change by the slider that changed the region.
C24_SliderReached ==
  /\ lastAction = "changeVolume"
  /\ volumeRegionChanged
  /\ \E i \in Calls(notifications, "volumeListener") :
       notifications[i].flags.currentRegion # currentRegion

\* C25: for every solute and every concentration from 0 to its saturated
\* concentration, concentrationToIndex is in 0..6, does not decrease from a
\* concentration to the next one, is 0 exactly at or below 0.001, is 6 exactly at
\* the saturated concentration, and between them is the number of the fifth of
\* the saturated concentration the concentration lies in.
C25_ConcentrationToIndexSteps ==
  ( probe.fn = "concentrationToIndex" /\ probe.done ) =>
      LET max == saturatedConcentration(probe.arg.solute)
          conc == probe.arg.concentration
          index == probe.result.index
      IN /\ index \in 0 .. 6
         /\ index <= probe.result.next
         /\ index = 0 <=> conc * 1000 <= ConcentrationUnitsPerMolar
         /\ index = 6 <=> conc >= max
         /\ ( conc * 1000 > ConcentrationUnitsPerMolar /\ conc < max ) =>
              /\ index \in 1 .. 5
              /\ (index - 1) * max < 5 * conc
              /\ 5 * conc <= index * max

\* C25 witness: the saturated concentration of a solute was classified into the
\* top region, and the concentration before it into region 5.
C25_Witness ==
  /\ probe.fn = "concentrationToIndex"
  /\ probe.done
  /\ probe.result.index = 5
  /\ probe.result.next = 6
  /\ probe.arg.concentration + 1 = saturatedConcentration(probe.arg.solute)

\* C26: after every change of solute, soluteAmount or volume, solidsRegion is
\* solidsToIndex of the current precipitateAmount and the current solute.
C26_SolidsRegionFollowsSolute ==
  lastAction \in InputActions =>
    solidsRegion = solidsToIndex(precipitateAmount, saturatedConcentration(solute))

\* C27: for every solute, solidsToIndex maps no precipitate to region 0, does not
\* decrease from a precipitate amount to the next one, and is in 0..4.
C27_SolidsToIndexFromZero ==
  ( probe.fn = "solidsToIndex" /\ probe.done ) =>
      /\ probe.result.index \in 0 .. 4
      /\ probe.result.index <= probe.result.next
      /\ probe.arg.precipitateAmount = 0 => probe.result.index = 0

\* C28: in every reachable state the visible flag of the SaturatedIndicator is
\* Solution.isSaturated().
C28_IndicatorTracksSaturation ==
  saturatedIndicatorVisible = (precipitateAmount # 0)

\* C28 witness: a change by the user has saturated the solution and the indicator
\* is visible.
C28_Witness ==
  /\ lastAction \in InputActions
  /\ Calls(notifications, "precipitateAmountListener") # { }
  /\ precipitateAmount > 0
  /\ saturatedIndicatorVisible

\* C28 witness of the other direction: a change has brought the solution to
\* exactly its saturated concentration with no precipitate, and the indicator is
\* hidden.
C28_HiddenAtSaturationReached ==
  /\ lastAction \in InputActions
  /\ Calls(notifications, "precipitateAmountListener") # { }
  /\ precipitateAmount = 0
  /\ concentration = saturatedConcentration(solute)
  /\ ~saturatedIndicatorVisible

\* C29: a saturated solution has the saturated concentration of its solute, in
\* the top region, and the test concentration >= saturatedConcentration agrees
\* with the test precipitateAmount !== 0 in every reachable state.
C29_SaturationTestsAgree ==
  /\ precipitateAmount # 0 =>
       /\ concentration = saturatedConcentration(solute)
       /\ concentrationToIndex(saturatedConcentration(solute), concentration) = 6
  /\ ( concentration >= saturatedConcentration(solute) ) <=> ( precipitateAmount # 0 )

\* C30: Reset All never plays the checkbox-unchecked sound: every call of the
\* unchecked clip in a reset happens while resetInProgressProperty is true and
\* the clip is not played.
C30_ResetAllSilencesUncheckedSound ==
  lastAction = "resetAll" =>
    \A i \in SoundCalls(sounds, "checkboxUnchecked") :
      sounds[i].resetInProgress /\ ~sounds[i].played

====
